---- MODULE Spec2Model ----
(***************************************************************************)
(* Climate Guardian: the gamification core (daily mission assignment,      *)
(* completion / skip, streak, points, level, badges, referral reward) of   *)
(* the SQLite request handlers, which run each request to completion       *)
(* (better-sqlite3 is synchronous, so one handler is one atomic step).     *)
(*                                                                         *)
(* Spec explores the requests of several accounts within one calendar      *)
(* date; SpecSolo explores the history of one account over several dates;  *)
(* SpecHistory adds the start of a seventh day of completions; SpecCatalog *)
(* varies the catalog of active missions; SpecWindow follows assignments   *)
(* past the 7-day window.  SpecRace and SpecAsync explore the handlers     *)
(* written on the awaiting query layer (Postgres), whose statements        *)
(* interleave between requests.  SpecAccounts creates accounts by email    *)
(* signup or Google sign-up; SpecReferrals follows a chain of email        *)
(* signups; SpecProgress adds the progress summary to SpecHistory;         *)
(* SpecLevel applies the level helpers to drawn arguments.                 *)
(*                                                                         *)
(* Calendar dates are day numbers (the server's dates are UTC dates, and   *)
(* isYesterday is taken on a server whose local zone is UTC).  CO2 amounts *)
(* are in tenths of a kilogram so that 2.5 kg is the integer 25.           *)
(***************************************************************************)
EXTENDS Integers, Sequences, FiniteSets, TLC

\* ---- bounds of the model ------------------------------------------------
\* Spec: the requests of several accounts within one calendar date
NumUsers == 2          \* at most this many accounts are created
\* SpecReferrals: accounts created by email signup, one after the other
RefUsers == 6          \* at most this many accounts are created
\* SpecSolo: the history of one account over several dates
SoloDays == 3          \* the clock runs over the dates 1..SoloDays
\* SpecRace, SpecAsync: one account served by the awaiting handlers
AsyncDays == 2         \* the clock runs over the dates 1..AsyncDays
MaxRequests == 3       \* at most this many requests arrive
\* SpecWindow: one account over more dates than the 7-day window holds
WindowDays == 9        \* the clock runs over the dates 1..WindowDays
WindowRows == 3        \* at most this many missions are assigned
\* SpecLevel: the level helpers applied to drawn arguments
MaxPoints == 1000      \* calculateLevel is applied to 0..MaxPoints
MaxLevel == 10         \* pointsForNextLevel is applied to 1..MaxLevel

\* streak_last_date is NULL until the first completion
NULL == 0

UserIds == 1..RefUsers

\* ---- catalogs ------------------------------------------------------------
\* The seed rows of the missions table (co2_impact in tenths of a kg).
getMissions ==
    [ m1  |-> [co2_impact |-> 25, points |-> 15],
      m2  |-> [co2_impact |-> 40, points |-> 20],
      m3  |-> [co2_impact |-> 35, points |-> 15],
      m4  |-> [co2_impact |-> 50, points |-> 25],
      m5  |-> [co2_impact |-> 5,  points |-> 10],
      m6  |-> [co2_impact |-> 15, points |-> 12],
      m7  |-> [co2_impact |-> 20, points |-> 15],
      m8  |-> [co2_impact |-> 8,  points |-> 10],
      m9  |-> [co2_impact |-> 30, points |-> 15],
      m10 |-> [co2_impact |-> 25, points |-> 20],
      m11 |-> [co2_impact |-> 15, points |-> 12],
      m12 |-> [co2_impact |-> 10, points |-> 15],
      m13 |-> [co2_impact |-> 8,  points |-> 10],
      m14 |-> [co2_impact |-> 12, points |-> 10],
      m15 |-> [co2_impact |-> 20, points |-> 25],
      m16 |-> [co2_impact |-> 5,  points |-> 10],
      m17 |-> [co2_impact |-> 20, points |-> 20],
      m18 |-> [co2_impact |-> 50, points |-> 30],
      m19 |-> [co2_impact |-> 3,  points |-> 8],
      m20 |-> [co2_impact |-> 30, points |-> 15] ]

\* The model keeps two rows of the seed catalog active so that the state
\* space stays finite.
SeedActive == {"m1", "m18"}

\* The seed rows of the badges table (all active).
getBadges ==
    [ b1  |-> [requirement_type |-> "missions_completed", requirement_value |-> 1,    points |-> 10],
      b2  |-> [requirement_type |-> "streak",             requirement_value |-> 7,    points |-> 50],
      b3  |-> [requirement_type |-> "streak",             requirement_value |-> 30,   points |-> 200],
      b4  |-> [requirement_type |-> "streak",             requirement_value |-> 100,  points |-> 500],
      b5  |-> [requirement_type |-> "co2_saved",          requirement_value |-> 10,   points |-> 25],
      b6  |-> [requirement_type |-> "co2_saved",          requirement_value |-> 50,   points |-> 75],
      b7  |-> [requirement_type |-> "co2_saved",          requirement_value |-> 100,  points |-> 150],
      b8  |-> [requirement_type |-> "co2_saved",          requirement_value |-> 500,  points |-> 500],
      b9  |-> [requirement_type |-> "co2_saved",          requirement_value |-> 1000, points |-> 1000],
      b10 |-> [requirement_type |-> "missions_completed", requirement_value |-> 10,   points |-> 30],
      b11 |-> [requirement_type |-> "missions_completed", requirement_value |-> 50,   points |-> 100],
      b12 |-> [requirement_type |-> "missions_completed", requirement_value |-> 100,  points |-> 250],
      b13 |-> [requirement_type |-> "referrals",          requirement_value |-> 1,    points |-> 50],
      b14 |-> [requirement_type |-> "referrals",          requirement_value |-> 5,    points |-> 150],
      b15 |-> [requirement_type |-> "referrals",          requirement_value |-> 10,   points |-> 300],
      b16 |-> [requirement_type |-> "special",            requirement_value |-> 1,    points |-> 100],
      b17 |-> [requirement_type |-> "premium",            requirement_value |-> 1,    points |-> 50] ]

BadgeIds == DOMAIN getBadges

\* ---- state ---------------------------------------------------------------
VARIABLES
    today,          \* the current UTC calendar date
    active_missions,\* ids of the rows of the missions table with is_active = 1
    users,          \* ids of the rows of the users table
    user_missions,  \* sequence of rows; a row's id is its index
    user_progress,  \* user id -> the user's ledger row
    progress_log,   \* <<user id, date>> -> daily log row
    user_badges,    \* set of <<user id, badge id>>
    referrals,      \* set of rows [referrer_id, referred_id, status]
    last,           \* the request served by the last step and its response
    inflight        \* the requests of the awaiting handlers, in order of arrival

vars == <<today, active_missions, users, user_missions, user_progress,
          progress_log, user_badges, referrals, last, inflight>>

db == <<active_missions, users, user_missions, user_progress, progress_log,
        user_badges, referrals>>

\* variant: the inactive rows of the catalog are selected as well
ActiveMissionsWholeCatalog == DOMAIN getMissions

\* SELECT * FROM missions WHERE is_active = 1
ActiveMissions == active_missions

\* ---- helpers (utils/helpers) ----------------------------------------------
getTodayDate == today

isYesterday(dateString) == dateString = today - 1

isToday(dateString) == getTodayDate = dateString

\* variant: one level for every 100 points
calculateLevelLinear(points) == (points \div 100) + 1

\* Math.floor(Math.sqrt(points / 100)) + 1
calculateLevel(points) ==
    (CHOOSE k \in 0..(points \div 100) :
        k * k * 100 <= points /\ (k + 1) * (k + 1) * 100 > points) + 1

\* variant: thresholds 100 points apart
pointsForNextLevelLinear(currentLevel) == currentLevel * 100

\* Math.pow(currentLevel, 2) * 100
pointsForNextLevel(currentLevel) == currentLevel * currentLevel * 100

\* ---- schema defaults --------------------------------------------------------
\* INSERT INTO user_progress (id, user_id): every counter takes its default
NewProgressRow ==
    [ total_co2_saved |-> 0, total_missions_completed |-> 0,
      total_missions_skipped |-> 0, current_streak |-> 0, longest_streak |-> 0,
      streak_last_date |-> NULL, total_points |-> 0, level |-> 1,
      trees_planted |-> 0 ]

\* a row of user_missions as INSERT creates it (status defaults to pending)
NewUserMission(userId, missionId, date) ==
    [ user_id |-> userId, mission_id |-> missionId, assigned_date |-> date,
      status |-> "pending" ]

MissionRowIds == DOMAIN user_missions

\* the database after initializeDatabase, before any account exists
EmptyTables ==
    /\ users = {}
    /\ user_missions = <<>>
    /\ user_progress = <<>>
    /\ progress_log = <<>>
    /\ user_badges = {}
    /\ referrals = {}
    /\ last = [op |-> "init", user |-> 0, id |-> 0, status |-> 0]
    /\ inflight = <<>>

Init ==
    /\ today = 1
    /\ active_missions = SeedActive
    /\ EmptyTables

\* ---- GET /api/missions/today ------------------------------------------------
\* variant: the lookup of today's row only sees pending rows
FindTodayMissionPendingOnly(userId, date) ==
    { i \in MissionRowIds :
        /\ user_missions[i].user_id = userId
        /\ user_missions[i].assigned_date = date
        /\ user_missions[i].status = "pending" }

\* SELECT ... WHERE um.user_id = ? AND um.assigned_date = ?
FindTodayMission(userId, date) ==
    { i \in MissionRowIds :
        /\ user_missions[i].user_id = userId
        /\ user_missions[i].assigned_date = date }

\* variant: the recent list reaches back six days only
RecentMissionsSixDays(userId) ==
    { user_missions[i].mission_id : i \in
        { j \in MissionRowIds :
            /\ user_missions[j].user_id = userId
            /\ user_missions[j].assigned_date >= today - 6 } }

\* SELECT mission_id ... WHERE user_id = ? AND assigned_date >= date('now', '-7 days')
RecentMissions(userId) ==
    { user_missions[i].mission_id : i \in
        { j \in MissionRowIds :
            /\ user_missions[j].user_id = userId
            /\ user_missions[j].assigned_date >= today - 7 } }

\* variant: there is no second query when the first one finds nothing
CandidateMissionsNoFallback(recentMissions) ==
    ActiveMissions \ recentMissions

\* the active missions not in the recent list, or every active mission when
\* that leaves none; ORDER BY RANDOM() LIMIT 1 picks any one of them
CandidateMissions(recentMissions) ==
    IF ActiveMissions \ recentMissions # {}
    THEN ActiveMissions \ recentMissions
    ELSE ActiveMissions

\* variant: the table has no unique constraint
UniqueUserDateNone(row) == TRUE

\* UNIQUE(user_id, assigned_date): an INSERT of a second row throws
UniqueUserDate(row) ==
    \A i \in MissionRowIds :
        ~ (/\ user_missions[i].user_id = row.user_id
           /\ user_missions[i].assigned_date = row.assigned_date)

GetTodayMission(userId) ==
    /\ userId \in users
    /\ LET found == FindTodayMission(userId, getTodayDate) IN
       IF found # {}
       THEN /\ last' = [op |-> "today", user |-> userId,
                        id |-> CHOOSE i \in found : TRUE, status |-> 200]
            /\ UNCHANGED <<today, db, inflight>>
       ELSE IF CandidateMissions(RecentMissions(userId)) = {}
       THEN /\ last' = [op |-> "today", user |-> userId, id |-> 0, status |-> 404]
            /\ UNCHANGED <<today, db, inflight>>
       ELSE \E m \in CandidateMissions(RecentMissions(userId)) :
            LET row == NewUserMission(userId, m, getTodayDate) IN
            IF UniqueUserDate(row)
            THEN /\ user_missions' = Append(user_missions, row)
                 /\ last' = [op |-> "today", user |-> userId,
                             id |-> Len(user_missions) + 1, status |-> 200]
                 /\ UNCHANGED <<today, active_missions, users, user_progress,
                                progress_log, user_badges, referrals, inflight>>
            ELSE /\ last' = [op |-> "today", user |-> userId, id |-> 0, status |-> 500]
                 /\ UNCHANGED <<today, db, inflight>>

\* ---- POST /api/missions/:id/complete -----------------------------------------
\* variant: the row is looked up by id alone
FindUserMissionAnyUser(id, userId) ==
    { i \in MissionRowIds : i = id }

\* SELECT ... WHERE um.id = ? AND um.user_id = ?
FindUserMission(id, userId) ==
    { i \in MissionRowIds : i = id /\ user_missions[i].user_id = userId }

\* variant: the completed check is missing
AlreadyCompletedNoCheck(userMission) == FALSE

\* if (userMission.status === 'completed') -> 400
AlreadyCompleted(userMission) == userMission.status = "completed"

\* variant: a gap of two or more days resets the streak to 0
NewStreakGapZero(progress) ==
    IF progress.streak_last_date # NULL
    THEN IF isYesterday(progress.streak_last_date)
         THEN progress.current_streak + 1
         ELSE IF isToday(progress.streak_last_date)
              THEN progress.current_streak
              ELSE 0
    ELSE 1

\* Calculate new streak
NewStreak(progress) ==
    IF progress.streak_last_date # NULL
    THEN IF isYesterday(progress.streak_last_date)
         THEN progress.current_streak + 1
         ELSE IF isToday(progress.streak_last_date)
              THEN progress.current_streak
              ELSE 1
    ELSE 1

\* variant: the longest streak is not raised
NewLongestStreakStale(newStreak, progress) == progress.longest_streak

\* Math.max(newStreak, progress.longest_streak)
NewLongestStreak(newStreak, progress) ==
    IF newStreak >= progress.longest_streak THEN newStreak ELSE progress.longest_streak

\* variant: the UPDATE of the completion forgets streak_last_date
CompletedProgressNoDate(progress, mission) ==
    [ progress EXCEPT
        !.total_co2_saved = @ + mission.co2_impact,
        !.total_missions_completed = @ + 1,
        !.current_streak = NewStreak(progress),
        !.longest_streak = NewLongestStreak(NewStreak(progress), progress),
        !.total_points = progress.total_points + mission.points,
        !.level = calculateLevel(progress.total_points + mission.points) ]

\* UPDATE user_progress SET ... of the completion
CompletedProgress(progress, mission) ==
    [ progress EXCEPT
        !.total_co2_saved = @ + mission.co2_impact,
        !.total_missions_completed = @ + 1,
        !.current_streak = NewStreak(progress),
        !.longest_streak = NewLongestStreak(NewStreak(progress), progress),
        !.streak_last_date = getTodayDate,
        !.total_points = progress.total_points + mission.points,
        !.level = calculateLevel(progress.total_points + mission.points) ]

\* variant: on conflict the day's row is overwritten with the new values
UpsertProgressLogOverwrite(log, userId, date, mission) ==
    [ d \in DOMAIN log \cup {<<userId, date>>} |->
        IF d = <<userId, date>>
        THEN [ co2_saved |-> mission.co2_impact,
               missions_completed |-> 1,
               points_earned |-> mission.points ]
        ELSE log[d] ]

\* INSERT INTO progress_log ... ON CONFLICT(user_id, date) DO UPDATE
UpsertProgressLog(log, userId, date, mission) ==
    IF <<userId, date>> \in DOMAIN log
    THEN [ log EXCEPT ![<<userId, date>>] =
             [ co2_saved |-> @.co2_saved + mission.co2_impact,
               missions_completed |-> @.missions_completed + 1,
               points_earned |-> @.points_earned + mission.points ] ]
    ELSE log @@ (<<userId, date>> :>
             [ co2_saved |-> mission.co2_impact,
               missions_completed |-> 1,
               points_earned |-> mission.points ])

\* variant: the thresholds are compared with > instead of >=
BadgeEarnedStrict(badge, stats) ==
    CASE badge.requirement_type = "missions_completed" ->
            stats.missionsCompleted > badge.requirement_value
      [] badge.requirement_type = "co2_saved" ->
            stats.co2Saved > badge.requirement_value * 10
      [] badge.requirement_type = "streak" ->
            stats.streak > badge.requirement_value
      [] OTHER -> FALSE

\* the switch on badge.requirement_type of checkBadges
BadgeEarned(badge, stats) ==
    CASE badge.requirement_type = "missions_completed" ->
            stats.missionsCompleted >= badge.requirement_value
      [] badge.requirement_type = "co2_saved" ->
            stats.co2Saved >= badge.requirement_value * 10
      [] badge.requirement_type = "streak" ->
            stats.streak >= badge.requirement_value
      [] OTHER -> FALSE

\* variant: special and premium badges are evaluated like mission counts
EarnedBadgesAnyType(userId, stats) ==
    { b \in BadgeIds :
        /\ <<userId, b>> \notin user_badges
        /\ \/ BadgeEarned(getBadges[b], stats)
           \/ /\ getBadges[b].requirement_type \in {"special", "premium"}
              /\ stats.missionsCompleted >= getBadges[b].requirement_value }

\* the badges checkBadges inserts: active, not yet held, earned
EarnedBadges(userId, stats) ==
    { b \in BadgeIds :
        /\ <<userId, b>> \notin user_badges
        /\ BadgeEarned(getBadges[b], stats) }

\* variant: the user's badges are rewritten to the ones earned now
InsertUserBadgesReplace(userId, badges) ==
    { r \in user_badges : r[1] # userId } \cup { <<userId, b>> : b \in badges }

\* INSERT INTO user_badges (id, user_id, badge_id) for each earned badge
InsertUserBadges(userId, badges) ==
    user_badges \cup { <<userId, b>> : b \in badges }

RECURSIVE BadgePoints(_)
BadgePoints(badges) ==
    IF badges = {} THEN 0
    ELSE LET b == CHOOSE x \in badges : TRUE
         IN getBadges[b].points + BadgePoints(badges \ {b})

\* the stats the completion hands to checkBadges
CompletionStats(progress, mission) ==
    [ co2Saved |-> progress.total_co2_saved + mission.co2_impact,
      missionsCompleted |-> progress.total_missions_completed + 1,
      streak |-> NewStreak(progress) ]

CompleteMission(userId, id) ==
    /\ userId \in users
    /\ LET found == FindUserMission(id, userId) IN
       IF found = {}
       THEN /\ last' = [op |-> "complete", user |-> userId, id |-> id, status |-> 404]
            /\ UNCHANGED <<today, db, inflight>>
       ELSE IF AlreadyCompleted(user_missions[id])
       THEN /\ last' = [op |-> "complete", user |-> userId, id |-> id, status |-> 400]
            /\ UNCHANGED <<today, db, inflight>>
       ELSE LET mission == getMissions[user_missions[id].mission_id]
                progress == user_progress[userId]
                earned == EarnedBadges(userId, CompletionStats(progress, mission))
            IN
            /\ user_missions' = [user_missions EXCEPT ![id].status = "completed"]
            /\ user_progress' = [user_progress EXCEPT ![userId] =
                   [ CompletedProgress(progress, mission) EXCEPT
                       !.total_points = @ + BadgePoints(earned) ] ]
            /\ progress_log' = UpsertProgressLog(progress_log, userId, getTodayDate, mission)
            /\ user_badges' = InsertUserBadges(userId, earned)
            /\ last' = [op |-> "complete", user |-> userId, id |-> id, status |-> 200]
            /\ UNCHANGED <<today, active_missions, users, referrals, inflight>>

\* ---- POST /api/missions/:id/skip ---------------------------------------------
\* variant: only completed rows are refused
NotPendingCompletedOnly(userMission) == userMission.status = "completed"

\* if (userMission.status !== 'pending') -> 400
NotPending(userMission) == userMission.status # "pending"

\* variant: the skip leaves the current streak alone
SkippedProgressKeepStreak(progress) ==
    [ progress EXCEPT !.total_missions_skipped = @ + 1 ]

\* UPDATE user_progress SET total_missions_skipped + 1, current_streak = 0
SkippedProgress(progress) ==
    [ progress EXCEPT
        !.total_missions_skipped = @ + 1,
        !.current_streak = 0 ]

SkipMission(userId, id) ==
    /\ userId \in users
    /\ LET found == FindUserMission(id, userId) IN
       IF found = {}
       THEN /\ last' = [op |-> "skip", user |-> userId, id |-> id, status |-> 404]
            /\ UNCHANGED <<today, db, inflight>>
       ELSE IF NotPending(user_missions[id])
       THEN /\ last' = [op |-> "skip", user |-> userId, id |-> id, status |-> 400]
            /\ UNCHANGED <<today, db, inflight>>
       ELSE /\ user_missions' = [user_missions EXCEPT ![id].status = "skipped"]
            /\ user_progress' = [user_progress EXCEPT ![userId] = SkippedProgress(@)]
            /\ last' = [op |-> "skip", user |-> userId, id |-> id, status |-> 200]
            /\ UNCHANGED <<today, active_missions, users, progress_log,
                           user_badges, referrals, inflight>>

\* ---- POST /api/auth/signup ----------------------------------------------------
\* generateReferralCode: the code of user u is modelled as the number u;
\* 0 stands for no code supplied and NumUsers + 1 for a code of no user.
ReferralCodes == 0..(NumUsers + 1)

\* variant: a code of no user is credited to the first account
FindReferrerAnyCode(referralCode, cookieCode) ==
    IF referralCode # 0 /\ referralCode \in users THEN referralCode
    ELSE IF cookieCode # 0 /\ cookieCode \in users THEN cookieCode
    ELSE IF (referralCode # 0 \/ cookieCode # 0) /\ 1 \in users THEN 1
    ELSE 0

\* SELECT id FROM users WHERE referral_code = ?  (0 when there is no such user)
FindReferrer(referralCode, cookieCode) ==
    IF referralCode # 0 /\ referralCode \in users THEN referralCode
    ELSE IF cookieCode # 0 /\ cookieCode \in users THEN cookieCode
    ELSE 0

\* SELECT COUNT(*) FROM referrals WHERE referrer_id = ? AND status = 'completed'
ReferralCount(rows, referrerId) ==
    Cardinality({ r \in rows : r.referrer_id = referrerId /\ r.status = "completed" })

\* SELECT id FROM badges WHERE requirement_type = 'referrals' AND requirement_value = 1
TreePlanterBadges ==
    { b \in BadgeIds : /\ getBadges[b].requirement_type = "referrals"
                       /\ getBadges[b].requirement_value = 1 }

Signup(referralCode, cookieCode) ==
    /\ Cardinality(users) + 1 \in UserIds
    /\ LET userId == Cardinality(users) + 1
           referrerId == FindReferrer(referralCode, cookieCode)
           newReferrals ==
               IF referrerId # 0
               THEN referrals \cup { [referrer_id |-> referrerId,
                                      referred_id |-> userId,
                                      status |-> "completed"] }
               ELSE referrals
           referralBadges ==
               IF referrerId # 0 /\ ReferralCount(newReferrals, referrerId) = 1
               THEN { <<referrerId, b>> : b \in TreePlanterBadges }
               ELSE {}
           progress0 == user_progress @@ (userId :> NewProgressRow)
       IN
       /\ users' = users \cup {userId}
       /\ user_progress' =
              IF referrerId # 0
              THEN [progress0 EXCEPT ![referrerId].trees_planted = @ + 1]
              ELSE progress0
       /\ referrals' = newReferrals
       /\ user_badges' = user_badges \cup referralBadges \cup {<<userId, "b16">>}
       /\ IF ActiveMissions = {}
          THEN UNCHANGED user_missions
          ELSE \E m \in ActiveMissions :
                 user_missions' = Append(user_missions,
                                         NewUserMission(userId, m, getTodayDate))
       /\ last' = [op |-> "signup", user |-> userId, id |-> referrerId, status |-> 201,
                   code |-> referralCode, cookie |-> cookieCode]
       /\ UNCHANGED <<today, active_missions, progress_log, inflight>>

\* ---- POST /api/auth/google -----------------------------------------------------
\* variant: the referrals row is inserted but no tree is credited
GoogleSignupNoTree(referralCode) ==
    /\ Cardinality(users) + 1 \in UserIds
    /\ LET userId == Cardinality(users) + 1
           referrerId == IF referralCode # 0 /\ referralCode \in users
                         THEN referralCode ELSE 0
       IN
       /\ users' = users \cup {userId}
       /\ user_progress' = user_progress @@ (userId :> NewProgressRow)
       /\ referrals' =
              IF referrerId # 0
              THEN referrals \cup { [referrer_id |-> referrerId,
                                      referred_id |-> userId,
                                      status |-> "completed"] }
              ELSE referrals
       /\ IF ActiveMissions = {}
          THEN UNCHANGED user_missions
          ELSE \E m \in ActiveMissions :
                 user_missions' = Append(user_missions,
                                         NewUserMission(userId, m, getTodayDate))
       /\ last' = [op |-> "google", user |-> userId, id |-> referrerId, status |-> 200,
                   code |-> referralCode, cookie |-> 0]
       /\ UNCHANGED <<today, active_missions, progress_log, user_badges, inflight>>

\* The branch that creates an account: no user has the Google id or the email.
\* Only the referralCode of the body is looked up; no badge is inserted.
GoogleSignup(referralCode) ==
    /\ Cardinality(users) + 1 \in UserIds
    /\ LET userId == Cardinality(users) + 1
           referrerId == IF referralCode # 0 /\ referralCode \in users
                         THEN referralCode ELSE 0
           progress0 == user_progress @@ (userId :> NewProgressRow)
       IN
       /\ users' = users \cup {userId}
       /\ user_progress' =
              IF referrerId # 0
              THEN [progress0 EXCEPT ![referrerId].trees_planted = @ + 1]
              ELSE progress0
       /\ referrals' =
              IF referrerId # 0
              THEN referrals \cup { [referrer_id |-> referrerId,
                                      referred_id |-> userId,
                                      status |-> "completed"] }
              ELSE referrals
       /\ IF ActiveMissions = {}
          THEN UNCHANGED user_missions
          ELSE \E m \in ActiveMissions :
                 user_missions' = Append(user_missions,
                                         NewUserMission(userId, m, getTodayDate))
       /\ last' = [op |-> "google", user |-> userId, id |-> referrerId, status |-> 200,
                   code |-> referralCode, cookie |-> 0]
       /\ UNCHANGED <<today, active_missions, progress_log, user_badges, inflight>>

\* ---- GET /api/progress/stats ---------------------------------------------------
RECURSIVE SumCO2Saved(_, _)
SumCO2Saved(userId, dates) ==
    IF dates = {} THEN 0
    ELSE LET d == CHOOSE x \in dates : TRUE
         IN progress_log[<<userId, d>>].co2_saved + SumCO2Saved(userId, dates \ {d})

\* SELECT COALESCE(SUM(co2_saved), 0) FROM progress_log WHERE user_id = ?
periodTotals(userId) ==
    [ total_co2 |-> SumCO2Saved(userId,
                      { d \in 1..today : <<userId, d>> \in DOMAIN progress_log }) ]

RECURSIVE SumPoints(_, _)
SumPoints(userId, ids) ==
    IF ids = {} THEN 0
    ELSE LET i == CHOOSE x \in ids : TRUE
         IN getMissions[user_missions[i].mission_id].points + SumPoints(userId, ids \ {i})

\* SELECT SUM(m.points) FROM user_missions um JOIN missions m ...
\* WHERE um.user_id = ? AND um.status = 'completed'
categoryStats(userId) ==
    [ points |-> SumPoints(userId,
                   { i \in MissionRowIds : /\ user_missions[i].user_id = userId
                                           /\ user_missions[i].status = "completed" }) ]

\* ---- the clock ------------------------------------------------------------------
\* The calendar date changes (midnight UTC).
Tick ==
    /\ today' = today + 1
    /\ last' = [op |-> "tick", user |-> 0, id |-> 0, status |-> 0]
    /\ UNCHANGED <<db, inflight>>

Requests ==
    \/ \E u \in UserIds : CompleteMission(u, Len(user_missions) + 1)
    \/ \E u \in UserIds, id \in MissionRowIds : CompleteMission(u, id)
    \/ \E u \in UserIds : SkipMission(u, Len(user_missions) + 1)
    \/ \E u \in UserIds, id \in MissionRowIds : SkipMission(u, id)

Next ==
    \/ /\ Cardinality(users) < NumUsers
       /\ \E c \in ReferralCodes, k \in ReferralCodes : Signup(c, k)
    \/ \E u \in UserIds : GetTodayMission(u)
    \/ Requests

Spec == Init /\ [][Next]_vars

\* Accounts created one after the other on one calendar date, each by email
\* signup or by Google sign-up.
NextAccounts ==
    \/ /\ Cardinality(users) < NumUsers + 1
       /\ \E c \in ReferralCodes, k \in ReferralCodes : Signup(c, k)
    \/ /\ Cardinality(users) < NumUsers + 1
       /\ \E c \in ReferralCodes : GoogleSignup(c)

SpecAccounts == Init /\ [][NextAccounts]_vars

\* Accounts created by email signup alone, enough of them to give one user
\* five referrals.
NextReferrals ==
    /\ Cardinality(users) < RefUsers
    /\ \E c \in 0..(RefUsers + 1), k \in {0} : Signup(c, k)

SpecReferrals == Init /\ [][NextReferrals]_vars

NextSolo ==
    \/ today < SoloDays /\ Tick
    \/ /\ users = {}
       /\ \E c \in ReferralCodes, k \in ReferralCodes : Signup(c, k)
    \/ \E u \in UserIds : GetTodayMission(u)
    \/ Requests

SpecSolo == Init /\ [][NextSolo]_vars

\* The state of one account that signed up on date 1 and completed its
\* mission on each of the dates 1..6 (m1, then m18, then m1 four times, earning
\* b1 with the first and b5 with the third completion), at the start of date 7.
WeekOfCompletions ==
    /\ today = 7
    /\ active_missions = SeedActive
    /\ users = {1}
    /\ user_missions =
          [ d \in 1..6 |-> [ user_id |-> 1,
                             mission_id |-> IF d = 2 THEN "m18" ELSE "m1",
                             assigned_date |-> d,
                             status |-> "completed" ] ]
    /\ user_progress =
          (1 :> [ total_co2_saved |-> 175, total_missions_completed |-> 6,
                  total_missions_skipped |-> 0, current_streak |-> 6,
                  longest_streak |-> 6, streak_last_date |-> 6,
                  total_points |-> 140, level |-> 2, trees_planted |-> 0 ])
    /\ progress_log =
          [ k \in { <<1, d>> : d \in 1..6 } |->
              LET mission == getMissions[IF k[2] = 2 THEN "m18" ELSE "m1"]
              IN [ co2_saved |-> mission.co2_impact,
                   missions_completed |-> 1,
                   points_earned |-> mission.points ] ]
    /\ user_badges = { <<1, "b16">>, <<1, "b1">>, <<1, "b5">> }
    /\ referrals = {}
    /\ last = [op |-> "tick", user |-> 0, id |-> 0, status |-> 0]
    /\ inflight = <<>>

\* One account, from its creation or from the end of a week of completions.
InitHistory == Init \/ WeekOfCompletions

SpecHistory == InitHistory /\ [][NextSolo]_vars

\* ---- GET /api/progress ---------------------------------------------------
\* Math.round((pointsInCurrentLevel / pointsNeededForLevel) * 100)
Percentage(pointsInCurrentLevel, pointsNeededForLevel) ==
    (200 * pointsInCurrentLevel + pointsNeededForLevel) \div (2 * pointsNeededForLevel)

\* variant: the progress inside the level is counted from zero points
GetProgressFromZero(userId) ==
    /\ userId \in users
    /\ LET progress == user_progress[userId]
           nextLevelPoints == pointsForNextLevel(progress.level)
           currentLevelPoints == 0
           pointsInCurrentLevel == progress.total_points - currentLevelPoints
           pointsNeededForLevel == nextLevelPoints - currentLevelPoints
       IN  last' = [ op |-> "progress", user |-> userId, id |-> 0, status |-> 200,
                     level |-> progress.level,
                     totalPoints |-> progress.total_points,
                     current |-> pointsInCurrentLevel,
                     needed |-> pointsNeededForLevel,
                     percentage |-> Percentage(pointsInCurrentLevel, pointsNeededForLevel),
                     nextLevel |-> progress.level + 1 ]
    /\ UNCHANGED <<today, db, inflight>>

\* the handler reads the ledger row of the requester (every account has one
\* since signup, so the 404 branch is not reached) and answers levelProgress
GetProgress(userId) ==
    /\ userId \in users
    /\ LET progress == user_progress[userId]
           nextLevelPoints == pointsForNextLevel(progress.level)
           currentLevelPoints == pointsForNextLevel(progress.level - 1)
           pointsInCurrentLevel == progress.total_points - currentLevelPoints
           pointsNeededForLevel == nextLevelPoints - currentLevelPoints
       IN  last' = [ op |-> "progress", user |-> userId, id |-> 0, status |-> 200,
                     level |-> progress.level,
                     totalPoints |-> progress.total_points,
                     current |-> pointsInCurrentLevel,
                     needed |-> pointsNeededForLevel,
                     percentage |-> Percentage(pointsInCurrentLevel, pointsNeededForLevel),
                     nextLevel |-> progress.level + 1 ]
    /\ UNCHANGED <<today, db, inflight>>

NextProgress ==
    \/ NextSolo
    \/ \E u \in UserIds : GetProgress(u)

SpecProgress == InitHistory /\ [][NextProgress]_vars

\* ---- the level helpers on drawn arguments ----------------------------------
\* no account exists; the argument n of the next call is drawn
InitLevel ==
    /\ today = 1
    /\ active_missions = SeedActive
    /\ users = {}
    /\ user_missions = <<>>
    /\ user_progress = <<>>
    /\ progress_log = <<>>
    /\ user_badges = {}
    /\ referrals = {}
    /\ inflight = <<>>
    /\ \E n \in 0..MaxPoints :
          last = [op |-> "input", user |-> 0, id |-> n, status |-> 0]

\* calculateLevel(points): the argument and the level returned
ApplyCalculateLevel ==
    /\ last.op = "input"
    /\ last' = [ op |-> "calculateLevel", user |-> 0, id |-> last.id,
                 status |-> calculateLevel(last.id) ]
    /\ UNCHANGED <<today, db, inflight>>

\* pointsForNextLevel(currentLevel): the argument, the threshold returned and
\* the levels calculateLevel gives at the threshold and one point below it
ApplyPointsForNextLevel ==
    /\ last.op = "input"
    /\ last.id \in 1..MaxLevel
    /\ LET threshold == pointsForNextLevel(last.id)
       IN  last' = [ op |-> "pointsForNextLevel", user |-> 0, id |-> last.id,
                     status |-> threshold,
                     at |-> calculateLevel(threshold),
                     below |-> calculateLevel(threshold - 1) ]
    /\ UNCHANGED <<today, db, inflight>>

NextLevel ==
    \/ ApplyCalculateLevel
    \/ ApplyPointsForNextLevel

SpecLevel == InitLevel /\ [][NextLevel]_vars

\* One account whose catalog of active missions is empty or a single mission.
Catalogs == { {}, {"m1"} }

InitCatalog ==
    /\ today = 1
    /\ active_missions \in Catalogs
    /\ EmptyTables

SpecCatalog == InitCatalog /\ [][NextSolo]_vars

\* One account over a horizon longer than the window of recent missions.
\* Only assignments are explored: the assigner reads user_id, mission_id and
\* assigned_date, which no completion and no skip writes.
NextWindow ==
    \/ today < WindowDays /\ Tick
    \/ /\ users = {}
       /\ \E c \in ReferralCodes, k \in ReferralCodes : Signup(c, k)
    \/ \E u \in UserIds :
          /\ \/ Len(user_missions) < WindowRows
             \/ FindTodayMission(u, getTodayDate) # {}
          /\ GetTodayMission(u)

SpecWindow == Init /\ [][NextWindow]_vars

\* ---- the handlers on the query / queryOne / execute layer ----------------------
\* With the Postgres pool every statement is awaited: a request is a sequence
\* of steps, one per statement, and the steps of the requests in flight
\* interleave.  A step that only reads to build the response is merged into
\* the step before it.
Request(op, userId, id) ==
    [ op |-> op, user |-> userId, id |-> id, pc |-> "start", status |-> 0,
      today |-> getTodayDate,       \* const today = getTodayDate()
      um_status |-> "none",         \* userMission.status
      mission |-> "none",           \* userMission.mission_id / newMission.id
      progress |-> NewProgressRow,  \* progress
      newStreak |-> 0,
      existingLog |-> FALSE,
      recent |-> {},                \* recentIds
      todo |-> {},                  \* the earned badges still to insert
      badge |-> "none" ]            \* the badge just inserted

RequestIds == DOMAIN inflight

\* the handler answers: res.status(code).json(...), or the errorHandler's 500
Respond(r, code) ==
    [inflight EXCEPT ![r].pc = "done", ![r].status = code]

Goto(r, pc) == [inflight EXCEPT ![r].pc = pc]

At(r, op, pc) == inflight[r].op = op /\ inflight[r].pc = pc

\* GET /today: SELECT today's row
AsyncTodayStart(userId) ==
    /\ userId \in users
    /\ LET found == FindTodayMission(userId, getTodayDate)
           req == Request("today", userId, 0)
       IN  inflight' = Append(inflight,
               IF found # {}
               THEN [req EXCEPT !.pc = "done", !.status = 200,
                                !.id = CHOOSE i \in found : TRUE]
               ELSE [req EXCEPT !.pc = "recent"])
    /\ UNCHANGED <<today, db, last>>

\* GET /today: SELECT mission_id ... WHERE assigned_date >= (now - 7 days)
AsyncTodayRecent(r) ==
    /\ At(r, "today", "recent")
    /\ inflight' = [inflight EXCEPT ![r].recent = RecentMissions(inflight[r].user),
                                    ![r].pc = "pick"]
    /\ UNCHANGED <<today, db, last>>

\* GET /today: SELECT * FROM missions WHERE is_active = 1 [AND id NOT IN ...]
AsyncTodayPick(r) ==
    /\ At(r, "today", "pick")
    /\ IF CandidateMissions(inflight[r].recent) = {}
       THEN inflight' = Respond(r, 404)
       ELSE \E m \in CandidateMissions(inflight[r].recent) :
              inflight' = [inflight EXCEPT ![r].mission = m, ![r].pc = "insert"]
    /\ UNCHANGED <<today, db, last>>

\* GET /today: INSERT INTO user_missions
AsyncTodayInsert(r) ==
    /\ At(r, "today", "insert")
    /\ LET row == NewUserMission(inflight[r].user, inflight[r].mission,
                                 inflight[r].today)
       IN  IF UniqueUserDate(row)
           THEN /\ user_missions' = Append(user_missions, row)
                /\ inflight' = [inflight EXCEPT ![r].pc = "done", ![r].status = 200,
                                                ![r].id = Len(user_missions) + 1]
                /\ UNCHANGED <<today, active_missions, users, user_progress,
                               progress_log, user_badges, referrals, last>>
           ELSE /\ inflight' = Respond(r, 500)
                /\ UNCHANGED <<today, db, last>>

\* POST /:id/complete: SELECT the row, 404 / 400
AsyncCompleteStart(userId, id) ==
    /\ userId \in users
    /\ LET req == Request("complete", userId, id) IN
       inflight' = Append(inflight,
           IF FindUserMission(id, userId) = {}
           THEN [req EXCEPT !.pc = "done", !.status = 404]
           ELSE IF AlreadyCompleted(user_missions[id])
           THEN [req EXCEPT !.pc = "done", !.status = 400]
           ELSE [req EXCEPT !.pc = "status",
                            !.um_status = user_missions[id].status,
                            !.mission = user_missions[id].mission_id])
    /\ UNCHANGED <<today, db, last>>

\* POST /:id/complete: UPDATE user_missions SET status = 'completed'
AsyncCompleteStatus(r) ==
    /\ At(r, "complete", "status")
    /\ user_missions' = [user_missions EXCEPT ![inflight[r].id].status = "completed"]
    /\ inflight' = Goto(r, "progress")
    /\ UNCHANGED <<today, active_missions, users, user_progress, progress_log,
                   user_badges, referrals, last>>

\* POST /:id/complete: SELECT * FROM user_progress, then newStreak
AsyncCompleteProgress(r) ==
    /\ At(r, "complete", "progress")
    /\ inflight' = [inflight EXCEPT
                       ![r].progress = user_progress[inflight[r].user],
                       ![r].newStreak = NewStreak(user_progress[inflight[r].user]),
                       ![r].pc = "ledger"]
    /\ UNCHANGED <<today, db, last>>

\* UPDATE user_progress SET ... of the completion: the two counters are
\* incremented by the statement, the other columns are written from the
\* values the handler computed from the row it read
AsyncCompletedProgress(row, req) ==
    [ row EXCEPT
        !.total_co2_saved = @ + getMissions[req.mission].co2_impact,
        !.total_missions_completed = @ + 1,
        !.current_streak = req.newStreak,
        !.longest_streak = NewLongestStreak(req.newStreak, req.progress),
        !.streak_last_date = req.today,
        !.total_points = req.progress.total_points + getMissions[req.mission].points,
        !.level = calculateLevel(req.progress.total_points
                                   + getMissions[req.mission].points) ]

AsyncCompleteLedger(r) ==
    /\ At(r, "complete", "ledger")
    /\ user_progress' = [user_progress EXCEPT ![inflight[r].user] =
                            AsyncCompletedProgress(@, inflight[r])]
    /\ inflight' = Goto(r, "log")
    /\ UNCHANGED <<today, active_missions, users, user_missions, progress_log,
                   user_badges, referrals, last>>

\* POST /:id/complete: SELECT id FROM progress_log WHERE user_id = ? AND date = ?
AsyncCompleteLog(r) ==
    /\ At(r, "complete", "log")
    /\ inflight' = [inflight EXCEPT
                       ![r].existingLog =
                           (<<inflight[r].user, inflight[r].today>> \in DOMAIN progress_log),
                       ![r].pc = "upsert"]
    /\ UNCHANGED <<today, db, last>>

\* POST /:id/complete: UPDATE progress_log, or INSERT INTO progress_log, which
\* UNIQUE(user_id, date) rejects when the day's row exists by now
AsyncCompleteUpsert(r) ==
    /\ At(r, "complete", "upsert")
    /\ LET key == <<inflight[r].user, inflight[r].today>> IN
       IF ~ inflight[r].existingLog /\ key \in DOMAIN progress_log
       THEN /\ inflight' = Respond(r, 500)
            /\ UNCHANGED <<today, db, last>>
       ELSE /\ progress_log' = UpsertProgressLog(progress_log, key[1], key[2],
                                                 getMissions[inflight[r].mission])
            /\ inflight' = Goto(r, "badges")
            /\ UNCHANGED <<today, active_missions, users, user_missions,
                           user_progress, user_badges, referrals, last>>

\* checkBadges: SELECT badge_id FROM user_badges, SELECT * FROM badges, and
\* the switch over the badges not held
AsyncCheckBadges(r) ==
    /\ At(r, "complete", "badges")
    /\ LET req == inflight[r]
           stats == [ co2Saved |-> req.progress.total_co2_saved
                                     + getMissions[req.mission].co2_impact,
                      missionsCompleted |-> req.progress.total_missions_completed + 1,
                      streak |-> req.newStreak ]
           earned == EarnedBadges(req.user, stats)
       IN  inflight' = IF earned = {}
                       THEN Respond(r, 200)
                       ELSE [inflight EXCEPT ![r].todo = earned, ![r].pc = "badge"]
    /\ UNCHANGED <<today, db, last>>

\* UNIQUE(user_id, badge_id): an INSERT of a second row throws
UniqueUserBadge(userId, badgeId) == <<userId, badgeId>> \notin user_badges

\* checkBadges: INSERT INTO user_badges for the next earned badge
AsyncInsertBadge(r) ==
    /\ At(r, "complete", "badge")
    /\ \E b \in inflight[r].todo :
          IF UniqueUserBadge(inflight[r].user, b)
          THEN /\ user_badges' = InsertUserBadges(inflight[r].user, {b})
               /\ inflight' = [inflight EXCEPT ![r].badge = b, ![r].pc = "points"]
               /\ UNCHANGED <<today, active_missions, users, user_missions,
                              user_progress, progress_log, referrals, last>>
          ELSE /\ inflight' = Respond(r, 500)
               /\ UNCHANGED <<today, db, last>>

\* checkBadges: UPDATE user_progress SET total_points = total_points + ?
AsyncBadgePoints(r) ==
    /\ At(r, "complete", "points")
    /\ user_progress' = [user_progress EXCEPT ![inflight[r].user].total_points =
                            @ + getBadges[inflight[r].badge].points]
    /\ inflight' = IF inflight[r].todo = {inflight[r].badge}
                   THEN [Respond(r, 200) EXCEPT ![r].todo = {}]
                   ELSE [inflight EXCEPT ![r].todo = @ \ {inflight[r].badge},
                                         ![r].pc = "badge"]
    /\ UNCHANGED <<today, active_missions, users, user_missions, progress_log,
                   user_badges, referrals, last>>

\* POST /:id/skip: SELECT the row, 404 / 400
AsyncSkipStart(userId, id) ==
    /\ userId \in users
    /\ LET req == Request("skip", userId, id) IN
       inflight' = Append(inflight,
           IF FindUserMission(id, userId) = {}
           THEN [req EXCEPT !.pc = "done", !.status = 404]
           ELSE IF NotPending(user_missions[id])
           THEN [req EXCEPT !.pc = "done", !.status = 400]
           ELSE [req EXCEPT !.pc = "status",
                            !.um_status = user_missions[id].status])
    /\ UNCHANGED <<today, db, last>>

\* POST /:id/skip: UPDATE user_missions SET status = 'skipped'
AsyncSkipStatus(r) ==
    /\ At(r, "skip", "status")
    /\ user_missions' = [user_missions EXCEPT ![inflight[r].id].status = "skipped"]
    /\ inflight' = Goto(r, "ledger")
    /\ UNCHANGED <<today, active_missions, users, user_progress, progress_log,
                   user_badges, referrals, last>>

\* POST /:id/skip: UPDATE user_progress SET total_missions_skipped + 1, ...
AsyncSkipLedger(r) ==
    /\ At(r, "skip", "ledger")
    /\ user_progress' = [user_progress EXCEPT ![inflight[r].user] = SkippedProgress(@)]
    /\ inflight' = Respond(r, 200)
    /\ UNCHANGED <<today, active_missions, users, user_missions, progress_log,
                   user_badges, referrals, last>>

\* One account and its GET /today requests, which interleave.
NextRace ==
    \/ today < AsyncDays /\ Tick
    \/ /\ users = {}
       /\ Signup(0, 0)
    \/ /\ Len(inflight) < MaxRequests
       /\ \E u \in UserIds : AsyncTodayStart(u)
    \/ \E r \in RequestIds : AsyncTodayRecent(r)
    \/ \E r \in RequestIds : AsyncTodayPick(r)
    \/ \E r \in RequestIds : AsyncTodayInsert(r)

SpecRace == Init /\ [][NextRace]_vars

\* One account and its requests of all three kinds, which interleave.
NextAsync ==
    \/ NextRace
    \/ /\ Len(inflight) < MaxRequests
       /\ \E u \in UserIds, id \in 1..(Len(user_missions) + 1) :
             AsyncCompleteStart(u, id) \/ AsyncSkipStart(u, id)
    \/ \E r \in RequestIds :
          \/ AsyncCompleteStatus(r)
          \/ AsyncCompleteProgress(r)
          \/ AsyncCompleteLedger(r)
          \/ AsyncCompleteLog(r)
          \/ AsyncCompleteUpsert(r)
          \/ AsyncCheckBadges(r)
          \/ AsyncInsertBadge(r)
          \/ AsyncBadgePoints(r)
          \/ AsyncSkipStatus(r)
          \/ AsyncSkipLedger(r)

SpecAsync == Init /\ [][NextAsync]_vars

TypeOK ==
    /\ users \subseteq UserIds
    /\ DOMAIN user_progress = users

\* ==== properties ===================================================================

C2_StatusTerminal ==
    [][ \A i \in MissionRowIds :
            user_missions[i].status # "pending"
                => user_missions'[i].status = user_missions[i].status ]_vars

\* C3: a successful completion on date D of a user with current streak s and
\* streak_last_date L sets the current streak to 1 if L is NULL, s + 1 if
\* L = D - 1, s if L = D, and 1 if L is two or more days before D.
C3_NewStreak ==
    [][ (last'.op = "complete" /\ last'.status = 200) =>
          LET L == user_progress[last'.user].streak_last_date
              s == user_progress[last'.user].current_streak
              n == user_progress'[last'.user].current_streak
          IN  /\ L = NULL => n = 1
              /\ (L # NULL /\ L = today - 1) => n = s + 1
              /\ (L # NULL /\ L = today) => n = s
              /\ (L # NULL /\ L <= today - 2) => n = 1 ]_vars

\* a completion has just restarted the streak at 1 after a gap: the user's
\* previous completion is two days old
C3_Witness ==
    /\ last.op = "complete" /\ last.status = 200
    /\ today >= 3
    /\ <<last.user, today>> \in DOMAIN progress_log
    /\ progress_log[<<last.user, today>>].missions_completed = 1
    /\ <<last.user, today - 1>> \notin DOMAIN progress_log
    /\ <<last.user, today - 2>> \in DOMAIN progress_log
    /\ user_progress[last.user].total_missions_skipped = 0
    /\ user_progress[last.user].current_streak = 1

\* C4: a successful completion on date D of a row whose mission has CO2 impact
\* C and points P adds C to total_co2_saved, 1 to total_missions_completed and
\* P plus the points of the badges newly earned to total_points, sets
\* longest_streak to the maximum of its old value and the new current streak
\* and streak_last_date to D, and leaves total_missions_skipped and
\* trees_planted unchanged.
C4_CompletionLedger ==
    [][ (last'.op = "complete" /\ last'.status = 200) =>
          LET u == last'.user
              m == getMissions[user_missions[last'.id].mission_id]
              p == user_progress[u]
              q == user_progress'[u]
              newBadges == { b \in BadgeIds : /\ <<u, b>> \in user_badges'
                                              /\ <<u, b>> \notin user_badges }
          IN  /\ q.total_co2_saved = p.total_co2_saved + m.co2_impact
              /\ q.total_missions_completed = p.total_missions_completed + 1
              /\ q.total_points = p.total_points + m.points + BadgePoints(newBadges)
              /\ q.longest_streak =
                    (IF p.longest_streak >= q.current_streak
                     THEN p.longest_streak ELSE q.current_streak)
              /\ q.streak_last_date = today
              /\ q.total_missions_skipped = p.total_missions_skipped
              /\ q.trees_planted = p.trees_planted ]_vars

\* the user's second completion has just earned the 10 kg badge b5
C4_Witness ==
    /\ last.op = "complete" /\ last.status = 200
    /\ user_progress[last.user].total_missions_completed = 2
    /\ <<last.user, "b5">> \in user_badges
    /\ user_progress[last.user].total_points = 95

\* C5: a successful skip of a pending row sets current_streak to 0 and adds 1
\* to total_missions_skipped; every other field of the ledger, the progress
\* log and the user's badges are unchanged.
C5_SkipLedger ==
    [][ (last'.op = "skip" /\ last'.status = 200) =>
          LET u == last'.user
              p == user_progress[u]
              q == user_progress'[u]
          IN  /\ user_missions[last'.id].status = "pending"
              /\ q = [ p EXCEPT !.current_streak = 0,
                                !.total_missions_skipped = p.total_missions_skipped + 1 ]
              /\ progress_log' = progress_log
              /\ user_badges' = user_badges ]_vars

\* the user's first skip has just broken a running streak
C5_Witness ==
    /\ last.op = "skip" /\ last.status = 200
    /\ user_progress[last.user].total_missions_skipped = 1
    /\ user_progress[last.user].longest_streak >= 1
    /\ user_progress[last.user].streak_last_date >= today - 1
    /\ user_progress[last.user].current_streak = 0

\* C6 (as claimed): in every reachable state the stored level of every user is
\* the level of the stored total_points:
\* (level - 1)^2 * 100 <= total_points < level^2 * 100.
C6_LevelMatchesPoints ==
    \A u \in users :
        LET l == user_progress[u].level
            t == user_progress[u].total_points
        IN  (l - 1) * (l - 1) * 100 <= t /\ t < l * l * 100

\* C7: a completion request on a row of the user that is already completed is
\* answered 400 and changes nothing; a completion succeeds only on a row that
\* is not completed and completes it, and a completed row stays completed, so
\* a row is credited at most once.
C7_AlreadyCompleted ==
    [][ /\ ( /\ last'.op = "complete"
             /\ last'.id \in MissionRowIds
             /\ user_missions[last'.id].user_id = last'.user
             /\ user_missions[last'.id].status = "completed" )
           => (last'.status = 400 /\ db' = db)
        /\ (last'.op = "complete" /\ last'.status = 200)
           => ( /\ user_missions[last'.id].status # "completed"
                /\ user_missions'[last'.id].status = "completed" )
        /\ \A i \in MissionRowIds :
             user_missions[i].status = "completed"
                => user_missions'[i].status = "completed" ]_vars

\* a completion of a completed row has just been refused
C7_Witness ==
    /\ last.op = "complete" /\ last.status = 400
    /\ user_missions[last.id].status = "completed"
    /\ user_missions[last.id].user_id = last.user

\* C8: a skip request on a row of the user that is completed or skipped is
\* answered 400 and changes nothing.
C8_SkipNotPending ==
    [][ ( /\ last'.op = "skip"
          /\ last'.id \in MissionRowIds
          /\ user_missions[last'.id].user_id = last'.user
          /\ user_missions[last'.id].status \in {"completed", "skipped"} )
        => (last'.status = 400 /\ db' = db) ]_vars

\* a skip of a skipped row has just been refused
C8_Witness ==
    /\ last.op = "skip" /\ last.status = 400
    /\ user_missions[last.id].status = "skipped"
    /\ user_missions[last.id].user_id = last.user

\* C9: a completion or skip request by user U with an id that names no row or a
\* row of another user is answered 404 and changes no state.
C9_NotFound ==
    [][ ( /\ last'.op \in {"complete", "skip"}
          /\ \/ last'.id \notin MissionRowIds
             \/ user_missions[last'.id].user_id # last'.user )
        => (last'.status = 404 /\ db' = db) ]_vars

\* a request on a pending row of another user has just been answered 404
C9_Witness ==
    /\ last.op \in {"complete", "skip"} /\ last.status = 404
    /\ last.id \in MissionRowIds
    /\ user_missions[last.id].user_id # last.user
    /\ user_missions[last.id].status = "pending"

\* C10: when a row exists for (user, today), GET /today answers 200 with the id
\* of that row, creates no row and changes no state; two calls in a row for the
\* same user return the same id.
C10_TodayIdempotent ==
    [][ ( /\ last'.op = "today"
          /\ \E i \in MissionRowIds :
                /\ user_missions[i].user_id = last'.user
                /\ user_missions[i].assigned_date = today )
        => ( /\ last'.status = 200
             /\ last'.id \in MissionRowIds
             /\ user_missions[last'.id].user_id = last'.user
             /\ user_missions[last'.id].assigned_date = today
             /\ db' = db
             /\ (last.op = "today" /\ last.user = last'.user /\ last.status = 200)
                   => last'.id = last.id ) ]_vars

\* GET /today has just returned today's row after that row was completed
C10_Witness ==
    /\ last.op = "today" /\ last.status = 200
    /\ user_missions[last.id].status = "completed"
    /\ user_missions[last.id].assigned_date = today

\* C12: when GET /today creates a row on date D and some active mission was
\* not assigned to the user on any date of D-7..D, the mission of the new
\* row is active and is none of those assigned on D-7..D (a mission last
\* assigned on D-8 or earlier is outside the window and so stays eligible).
C12_AntiRepeat ==
    [][ (/\ last'.op = "today" /\ last'.status = 200
         /\ Len(user_missions') = Len(user_missions) + 1) =>
          LET window == { user_missions[i].mission_id : i \in
                            { j \in MissionRowIds :
                                /\ user_missions[j].user_id = last'.user
                                /\ user_missions[j].assigned_date >= today - 7
                                /\ user_missions[j].assigned_date <= today } }
              chosen == user_missions'[Len(user_missions')].mission_id
          IN  active_missions \ window # {}
                  => chosen \in active_missions \ window ]_vars

\* GET /today has just assigned the mission the user last had on D-8, while
\* the other active mission was assigned inside the window
C12_Witness ==
    /\ last.op = "today" /\ last.status = 200
    /\ last.id = Len(user_missions)
    /\ user_missions[last.id].assigned_date = today
    /\ \E j \in MissionRowIds :
          /\ user_missions[j].user_id = last.user
          /\ user_missions[j].assigned_date = today - 8
          /\ user_missions[j].mission_id = user_missions[last.id].mission_id
    /\ \E j \in MissionRowIds :
          /\ user_missions[j].user_id = last.user
          /\ user_missions[j].assigned_date >= today - 7
          /\ user_missions[j].assigned_date < today
          /\ user_missions[j].mission_id # user_missions[last.id].mission_id

\* C13: when the user has no row for today, the active catalog is not empty
\* and every active mission was assigned to the user on D-7..D, GET /today
\* does not fail: it answers 200 and appends one pending row for today whose
\* mission is active (a repeat).
C13_FallbackRepeat ==
    [][ LET u == last'.user
            mine == { j \in MissionRowIds : user_missions[j].user_id = u }
            window == { user_missions[j].mission_id : j \in
                          { k \in mine : /\ user_missions[k].assigned_date >= today - 7
                                         /\ user_missions[k].assigned_date <= today } }
        IN  (/\ last'.op = "today"
             /\ u \in users
             /\ \A j \in mine : user_missions[j].assigned_date # today
             /\ active_missions # {}
             /\ active_missions \subseteq window) =>
              /\ last'.status = 200
              /\ Len(user_missions') = Len(user_missions) + 1
              /\ \A j \in MissionRowIds : user_missions'[j] = user_missions[j]
              /\ LET row == user_missions'[Len(user_missions')] IN
                    /\ row.user_id = u
                    /\ row.assigned_date = today
                    /\ row.status = "pending"
                    /\ row.mission_id \in active_missions ]_vars

\* GET /today has just assigned a mission although every active mission was
\* already assigned to the user within the window
C13_Witness ==
    /\ last.op = "today" /\ last.status = 200
    /\ last.id = Len(user_missions)
    /\ user_missions[last.id].assigned_date = today
    /\ user_missions[last.id].status = "pending"
    /\ active_missions \subseteq
          { user_missions[j].mission_id : j \in
              { k \in MissionRowIds :
                  /\ k # last.id
                  /\ user_missions[k].user_id = last.user
                  /\ user_missions[k].assigned_date >= today - 7 } }

\* C14: when the user has no row for today and no mission is active,
\* GET /today answers 404 (no missions available) and creates no row.
C14_NoMissionsAvailable ==
    [][ (/\ last'.op = "today"
         /\ last'.user \in users
         /\ active_missions = {}
         /\ \A j \in MissionRowIds :
               ~ (/\ user_missions[j].user_id = last'.user
                  /\ user_missions[j].assigned_date = today)) =>
          /\ last'.status = 404
          /\ user_missions' = user_missions ]_vars

\* GET /today of an existing account has just been refused because the
\* catalog of active missions is empty
C14_Witness ==
    /\ last.op = "today" /\ last.status = 404
    /\ last.user \in users
    /\ active_missions = {}
    /\ user_missions = <<>>

\* C15: the badges a successful completion inserts for its user are exactly
\* the badges the user did not hold whose type is missions_completed,
\* co2_saved or streak and whose requirement_value is at most the user's
\* total_missions_completed, total_co2_saved or current_streak as they are
\* after the completion.
C15_BadgesAwarded ==
    [][ (last'.op = "complete" /\ last'.status = 200) =>
          LET u == last'.user
              p == user_progress'[u]
              due == { b \in BadgeIds :
                         /\ <<u, b>> \notin user_badges
                         /\ \/ /\ getBadges[b].requirement_type = "missions_completed"
                               /\ getBadges[b].requirement_value <= p.total_missions_completed
                            \/ /\ getBadges[b].requirement_type = "co2_saved"
                               /\ getBadges[b].requirement_value * 10 <= p.total_co2_saved
                            \/ /\ getBadges[b].requirement_type = "streak"
                               /\ getBadges[b].requirement_value <= p.current_streak }
          IN  user_badges' \ user_badges = { <<u, b>> : b \in due } ]_vars

\* a completion has just brought its user, who already held b1 and b5, to a
\* current streak of 7 and inserted the streak badge b2 alone
C15_Witness ==
    /\ last.op = "complete" /\ last.status = 200
    /\ user_progress[last.user].current_streak = 7
    /\ user_progress[last.user].total_missions_completed = 7
    /\ { r[2] : r \in { x \in user_badges : x[1] = last.user } }
          = {"b1", "b2", "b5", "b16"}

\* C16 (as claimed): whenever a step creates user_badges rows for a user by
\* badge evaluation (after the user's completion, or for the referrer when a
\* referral is recorded), the user's total_points grows by exactly the points
\* of those badges, on top of the mission's points if the step is the
\* user's own completion.
C16_BadgePointsCredited ==
    [][ \A u \in users :
          LET new == { b \in BadgeIds :
                         /\ <<u, b>> \in user_badges' \ user_badges
                         /\ getBadges[b].requirement_type \in
                              {"missions_completed", "co2_saved", "streak", "referrals"} }
              own == IF last'.op = "complete" /\ last'.status = 200 /\ last'.user = u
                     THEN getMissions[user_missions[last'.id].mission_id].points
                     ELSE 0
          IN  new # {} =>
                user_progress'[u].total_points =
                    user_progress[u].total_points + own + BadgePoints(new) ]_vars

\* C17: a user_badges row is permanent: no step removes a (user, badge) pair
\* (the table holds one row per pair, UNIQUE(user_id, badge_id)).
C17_BadgesPermanent ==
    [][ user_badges \subseteq user_badges' ]_vars

\* a referral has just been credited to a user who keeps the badges of the
\* signup and of an earlier completion next to the new referral badge
C17_Witness ==
    /\ last.op = "signup" /\ last.id # 0
    /\ {<<last.id, "b1">>, <<last.id, "b13">>, <<last.id, "b16">>} \subseteq user_badges
    /\ \E i \in MissionRowIds :
          user_missions[i].user_id = last.id /\ user_missions[i].status = "completed"

\* C18: for every user the co2_saved of the user's daily log rows add up to
\* the total_co2_saved of the user's ledger.
C18_LogMatchesLedger ==
    \A u \in users :
        periodTotals(u).total_co2 = user_progress[u].total_co2_saved

\* the user has log rows on two dates, one of them merged from two
\* completions of the same date
C18_Witness ==
    \E u \in users : \E d1 \in 1..today, d2 \in 1..today :
        /\ d1 # d2
        /\ <<u, d1>> \in DOMAIN progress_log
        /\ <<u, d2>> \in DOMAIN progress_log
        /\ progress_log[<<u, d1>>].missions_completed = 2
        /\ user_progress[u].total_co2_saved > 0

\* C11: under every interleaving of GET /today requests and account
\* creations, user_missions holds at most one row per (user_id, assigned_date).
C11_OneAssignmentPerDate ==
    \A i \in MissionRowIds : \A j \in MissionRowIds :
        (/\ user_missions[i].user_id = user_missions[j].user_id
         /\ user_missions[i].assigned_date = user_missions[j].assigned_date) => i = j

\* two GET /today requests of one user both found no row for the same date:
\* one inserted the row, the INSERT of the other was rejected
C11_Witness ==
    \E r \in RequestIds : \E q \in RequestIds :
        /\ inflight[r].op = "today" /\ inflight[q].op = "today"
        /\ inflight[r].user = inflight[q].user
        /\ inflight[r].today = inflight[q].today
        /\ inflight[r].status = 200 /\ inflight[r].mission # "none"
        /\ inflight[q].status = 500
        /\ user_missions[inflight[r].id].assigned_date = inflight[r].today

\* C19 (as claimed): a completion that fails after it started leaves none of
\* its effects: when no other request addresses the same row, the row still
\* has the status the failed request found.
C19_AllOrNothing ==
    \A r \in RequestIds :
        (/\ inflight[r].op = "complete"
         /\ inflight[r].pc = "done"
         /\ inflight[r].status = 500
         /\ \A q \in RequestIds \ {r} :
               inflight[q].op = "today" \/ inflight[q].id # inflight[r].id)
            => user_missions[inflight[r].id].status = inflight[r].um_status

\* C20 (as claimed): when the completion and skip requests of a user, each on
\* a different pending row, have all been answered 200, the ledger is the one
\* of a sequential run: total_points is the points of the completed rows'
\* missions plus the points of the badges the completions earned.
C20_NoLostUpdate ==
    (/\ \A r \in RequestIds : inflight[r].pc = "done" /\ inflight[r].status # 500
     /\ \A r \in RequestIds :
           inflight[r].op \in {"complete", "skip"} =>
               /\ inflight[r].status = 200
               /\ inflight[r].um_status = "pending"
               /\ \A q \in RequestIds \ {r} :
                     inflight[q].op \in {"complete", "skip"}
                         => inflight[q].id # inflight[r].id)
        => \A u \in users :
             user_progress[u].total_points =
                 categoryStats(u).points
                   + BadgePoints({ b \in BadgeIds :
                        /\ <<u, b>> \in user_badges
                        /\ getBadges[b].requirement_type \in
                             {"missions_completed", "co2_saved", "streak"} })

\* C21 (as claimed): of two completion requests that both found the same row
\* pending, exactly one is answered 200 and the other 400 (already
\* completed), and the user's ledger counts one completion per completed row.
C21_ExactlyOneSucceeds ==
    \A r \in RequestIds : \A q \in RequestIds :
        (/\ r < q
         /\ inflight[r].op = "complete" /\ inflight[q].op = "complete"
         /\ inflight[r].user = inflight[q].user
         /\ inflight[r].id = inflight[q].id
         /\ inflight[r].um_status = "pending" /\ inflight[q].um_status = "pending"
         /\ inflight[r].pc = "done" /\ inflight[q].pc = "done")
            => /\ {inflight[r].status, inflight[q].status} = {200, 400}
               /\ user_progress[inflight[r].user].total_missions_completed =
                     Cardinality({ i \in MissionRowIds :
                         /\ user_missions[i].user_id = inflight[r].user
                         /\ user_missions[i].status = "completed" })

\* C22 (as claimed): a badge evaluation whose INSERT meets the row another
\* evaluation has just inserted is not an error: no completion is answered
\* 500 while it still has an earned badge to insert.
C22_DuplicateInsertNoOp ==
    \A r \in RequestIds :
        (/\ inflight[r].op = "complete"
         /\ inflight[r].pc = "done"
         /\ inflight[r].todo # {})
            => inflight[r].status = 200

\* C23 (as claimed): two GET /today requests of one user for the same date
\* are both answered 200 with the id of the same row, also when both found
\* no row and raced on the INSERT.
C23_RaceLoserRereads ==
    \A r \in RequestIds : \A q \in RequestIds :
        (/\ inflight[r].op = "today" /\ inflight[q].op = "today"
         /\ inflight[r].user = inflight[q].user
         /\ inflight[r].today = inflight[q].today
         /\ inflight[r].pc = "done" /\ inflight[q].pc = "done")
            => /\ inflight[r].status = 200 /\ inflight[q].status = 200
               /\ inflight[r].id = inflight[q].id

\* C24 (as claimed): an account created, by email signup or by Google
\* sign-up, with the referral code of an existing user R adds the referrals
\* row (R, new user, completed), adds exactly 1 to R's trees_planted and, if
\* R had no completed referral before, leaves R holding the first-referral
\* badge.
C24_ReferralRecorded ==
    [][ (/\ last'.op \in {"signup", "google"}
         /\ last'.code # 0
         /\ last'.code \in users) =>
          LET R == last'.code
              row == [referrer_id |-> R, referred_id |-> last'.user,
                      status |-> "completed"]
          IN  /\ row \notin referrals /\ referrals' = referrals \cup {row}
              /\ user_progress'[R].trees_planted = user_progress[R].trees_planted + 1
              /\ (\A x \in referrals : x.referrer_id # R) =>
                    \A b \in BadgeIds :
                       (/\ getBadges[b].requirement_type = "referrals"
                        /\ getBadges[b].requirement_value = 1)
                           => <<R, b>> \in user_badges' ]_vars

\* C25 (as claimed): a user with k completed referrals holds every badge of
\* type referrals whose requirement_value is at most k.
C25_ReferralBadges ==
    \A u \in users : \A b \in BadgeIds :
        (/\ getBadges[b].requirement_type = "referrals"
         /\ getBadges[b].requirement_value <=
               Cardinality({ x \in referrals :
                               x.referrer_id = u /\ x.status = "completed" }))
            => <<u, b>> \in user_badges

\* C26: an account creation whose referral code (body or cookie) is the code
\* of no existing user succeeds like a signup without code: the account is
\* created, no referrals row is added, no user's trees_planted changes and no
\* badge of type referrals is inserted.
C26_UnknownCodeIgnored ==
    [][ (/\ last'.op \in {"signup", "google"}
         /\ last'.code # 0 \/ last'.cookie # 0
         /\ last'.code \notin users
         /\ last'.cookie \notin users) =>
          /\ last'.status \in {200, 201}
          /\ users' = users \cup {last'.user} /\ last'.user \notin users
          /\ referrals' = referrals
          /\ \A u \in users :
                user_progress'[u].trees_planted = user_progress[u].trees_planted
          /\ \A r \in user_badges' \ user_badges :
                getBadges[r[2]].requirement_type # "referrals" ]_vars

\* a second account has just been created with a code of no user: there is
\* no referrals row and the first account has no tree
C26_Witness ==
    /\ last.op = "signup" /\ last.status = 201
    /\ last.code # 0 /\ last.code \notin users
    /\ last.cookie \notin users
    /\ last.user = 2
    /\ referrals = {}
    /\ user_progress[1].trees_planted = 0
    /\ <<1, "b13">> \notin user_badges

\* C27: a GET /today, a completion or a skip of one user leaves the rows of
\* every other user unchanged: their user_missions rows, their ledger, their
\* daily log and their badges.
C27_UsersIndependent ==
    [][ last'.op \in {"today", "complete", "skip"} =>
          \A v \in users \ {last'.user} :
              /\ \A i \in MissionRowIds :
                    user_missions[i].user_id = v => user_missions'[i] = user_missions[i]
              /\ \A i \in DOMAIN user_missions' \ MissionRowIds :
                    user_missions'[i].user_id # v
              /\ user_progress'[v] = user_progress[v]
              /\ \A key \in DOMAIN progress_log \cup DOMAIN progress_log' :
                    key[1] = v =>
                        /\ key \in DOMAIN progress_log /\ key \in DOMAIN progress_log'
                        /\ progress_log'[key] = progress_log[key]
              /\ \A b \in BadgeIds :
                    <<v, b>> \in user_badges' <=> <<v, b>> \in user_badges ]_vars

\* user 2 has just completed a mission while user 1, who completed one
\* before, keeps the ledger of that single completion
C27_Witness ==
    /\ last.op = "complete" /\ last.status = 200 /\ last.user = 2
    /\ 1 \in users
    /\ user_progress[1].total_missions_completed = 1
    /\ user_progress[2].total_missions_completed = 1
    /\ <<1, today>> \in DOMAIN progress_log
    /\ progress_log[<<1, today>>].missions_completed = 1

\* C28: calculateLevel(points) = floor(sqrt(points / 100)) + 1 for every
\* non-negative integer points (the level L >= 1 with
\* (L-1)^2 * 100 <= points < L^2 * 100), it is non-decreasing in points, and
\* the points 0, 99, 100, 399, 400, 899, 900 give the levels 1, 1, 2, 2, 3, 3, 4.
C28_LevelFunction ==
    last.op = "calculateLevel" =>
        LET points == last.id
            L == last.status
            table == (0 :> 1) @@ (99 :> 1) @@ (100 :> 2) @@ (399 :> 2) @@
                     (400 :> 3) @@ (899 :> 3) @@ (900 :> 4)
        IN  /\ L >= 1
            /\ (L - 1) * (L - 1) * 100 <= points
            /\ points < L * L * 100
            /\ \A q \in 0..points : calculateLevel(q) <= L
            /\ points \in DOMAIN table => L = table[points]

\* calculateLevel has just returned level 4 for 900 points
C28_Witness ==
    last.op = "calculateLevel" /\ last.id = 900 /\ last.status = 4

\* C29 (as claimed): L^2 * 100 is the threshold at which level L is first
\* reached: the level at L^2 * 100 points is L and the level one point below
\* is L - 1.
C29_ThresholdOfLevel ==
    last.op = "pointsForNextLevel" =>
        /\ last.status = last.id * last.id * 100
        /\ last.at = last.id
        /\ last.below = last.id - 1

\* C29 (amended): pointsForNextLevel(L) = L^2 * 100 is the threshold at which
\* level L + 1 is first reached: for every level L >= 1 the level at
\* L^2 * 100 points is L + 1 and the level one point below is L.
C29_ThresholdOfNextLevel ==
    last.op = "pointsForNextLevel" =>
        /\ last.status = last.id * last.id * 100
        /\ last.at = last.id + 1
        /\ last.below = last.id

\* pointsForNextLevel(3) has just returned 900, where level 4 starts
C29_Witness ==
    /\ last.op = "pointsForNextLevel" /\ last.id = 3
    /\ last.status = 900 /\ last.at = 4 /\ last.below = 3

\* C30 (as claimed): the progress summary reports as points needed for the
\* next level (level+1)^2 * 100 - level^2 * 100 and as progress inside the
\* level total_points - (level-1)^2 * 100.
C30_LevelProgressForward ==
    last.op = "progress" =>
        /\ last.needed = (last.level + 1) * (last.level + 1) * 100
                             - last.level * last.level * 100
        /\ last.current = last.totalPoints
                             - (last.level - 1) * (last.level - 1) * 100

\* C30 (amended): the progress summary reports as points needed for the next
\* level level^2 * 100 - (level-1)^2 * 100, the width of the current level,
\* and as progress inside the level total_points - (level-1)^2 * 100.
C30_LevelProgress ==
    last.op = "progress" =>
        /\ last.level = user_progress[last.user].level
        /\ last.totalPoints = user_progress[last.user].total_points
        /\ last.needed = last.level * last.level * 100
                             - (last.level - 1) * (last.level - 1) * 100
        /\ last.current = last.totalPoints
                             - (last.level - 1) * (last.level - 1) * 100

\* the summary of an account at level 2 with 140 points has just been
\* answered: 40 of the 300 points of level 2
C30_Witness ==
    /\ last.op = "progress" /\ last.status = 200
    /\ last.level = 2 /\ last.totalPoints = 140
    /\ last.current = 40 /\ last.needed = 300 /\ last.percentage = 13

\* C31: the badge evaluation of a completion never inserts a badge of type
\* special or premium, whatever the stats; a row of user_badges for such a
\* badge is only ever inserted by a signup, for the account it creates.
C31_SpecialNotEvaluated ==
    [][ \A r \in user_badges' \ user_badges :
          getBadges[r[2]].requirement_type \in {"special", "premium"} =>
              /\ last'.op = "signup"
              /\ r[1] = last'.user
              /\ r[1] \notin users ]_vars

\* a completion has just been evaluated for a user with 7 completions who
\* holds the special badge b16 from signup and not the premium badge b17
C31_Witness ==
    /\ last.op = "complete" /\ last.status = 200
    /\ user_progress[last.user].total_missions_completed = 7
    /\ <<last.user, "b2">> \in user_badges
    /\ <<last.user, "b16">> \in user_badges
    /\ <<last.user, "b17">> \notin user_badges

\* C32 (as claimed): after every successful completion the user's
\* current_streak is at least 1.
C32_StreakAtLeastOne ==
    [][ (last'.op = "complete" /\ last'.status = 200) =>
          user_progress'[last'.user].current_streak >= 1 ]_vars

\* C33 (as claimed): for every user total_missions_completed is the number of
\* the user's rows with status completed and total_missions_skipped the
\* number with status skipped.
C33_CountersMatchRows ==
    \A u \in users :
        /\ user_progress[u].total_missions_completed =
              Cardinality({ i \in MissionRowIds :
                              /\ user_missions[i].user_id = u
                              /\ user_missions[i].status = "completed" })
        /\ user_progress[u].total_missions_skipped =
              Cardinality({ i \in MissionRowIds :
                              /\ user_missions[i].user_id = u
                              /\ user_missions[i].status = "skipped" })

\* C34 (as claimed): every row of the daily log has missions_completed <= 1.
C34_OneCompletionPerDate ==
    \A key \in DOMAIN progress_log : progress_log[key].missions_completed <= 1

\* C35: for a user who never skipped, after each successful completion on
\* date D current_streak is the length of the maximal run of consecutive
\* dates ending at D on each of which the user completed a mission (the
\* dates of the user's rows of the daily log).
C35_StreakIsRunLength ==
    [][ (/\ last'.op = "complete" /\ last'.status = 200
         /\ user_progress'[last'.user].total_missions_skipped = 0) =>
          LET u == last'.user
              D == today'
              done == { d \in 1..D : /\ <<u, d>> \in DOMAIN progress_log'
                                      /\ progress_log'[<<u, d>>].missions_completed >= 1 }
              run == CHOOSE n \in 0..D :
                        /\ \A d \in (D - n + 1)..D : d \in done
                        /\ (D - n) \notin done
          IN  /\ D \in done
              /\ user_progress'[u].current_streak = run ]_vars

\* a completion on date 3 of a user who completed on date 1 and not on date
\* 2: the run is the single date 3
C35_Witness ==
    /\ last.op = "complete" /\ last.status = 200
    /\ today = 3
    /\ user_progress[last.user].total_missions_skipped = 0
    /\ <<last.user, 1>> \in DOMAIN progress_log
    /\ <<last.user, 2>> \notin DOMAIN progress_log
    /\ <<last.user, 3>> \in DOMAIN progress_log
    /\ user_progress[last.user].current_streak = 1

\* C36 (as claimed): in every state in which no request is in progress, a
\* user whose longest_streak, total_missions_completed or total_co2_saved has
\* reached the requirement_value of a streak, missions_completed or co2_saved
\* badge holds that badge.
C36_FullProgressIsEarned ==
    (\A r \in RequestIds : inflight[r].pc = "done") =>
        \A u \in users : \A b \in BadgeIds :
            LET badge == getBadges[b]
                p == user_progress[u]
            IN  (\/ /\ badge.requirement_type = "streak"
                    /\ p.longest_streak >= badge.requirement_value
                 \/ /\ badge.requirement_type = "missions_completed"
                    /\ p.total_missions_completed >= badge.requirement_value
                 \/ /\ badge.requirement_type = "co2_saved"
                    /\ p.total_co2_saved >= badge.requirement_value * 10)
                    => <<u, b>> \in user_badges

====
